---- MODULE Spec2Model ----
(***************************************************************************)
(* Household membership and invitation lifecycle of movie-jar              *)
(* (src/src/lib/households.ts) over the Supabase tables and row-level      *)
(* security policies of the repository's SQL files, with the add-movie     *)
(* flow of src/src/lib/movies.ts.                                          *)
(*                                                                         *)
(* Every `await` on the store is one atomic step of a call; the code       *)
(* between two awaits runs with the step that precedes it.  A request may  *)
(* fail (the store answers with an error instead of carrying it out); the  *)
(* code's handling of that error is part of the step.                      *)
(***************************************************************************)
EXTENDS Integers, Sequences, FiniteSets, Bags, TLC

VARIABLES
    households,   \* table households: set of rows [id, name, created_by]
    members,      \* table household_members: bag of rows [household_id, user_id, role]
    invitations,  \* table household_invitations: set of rows
    appUsers,     \* table app_users: user -> [present, hasEmail]
    rls,          \* which of the repository's SELECT policy scripts is deployed
    nextHid,      \* next household id the store hands out
    nextInv,      \* next invitation id the store hands out
    now,          \* the clock, in days
    proc,         \* the calls in flight, one per slot
    ret,          \* what the call that ended in the last step returned (NoRet otherwise)
    faults,       \* requests the store has failed so far
    published,    \* ids of the households createHousehold has returned
    accepted,     \* <<invitation, account>> pairs acceptInvitation has returned success for
    movies        \* table movies: set of rows [id, household_id, added_by_user_id, title, status,
                  \* api_id, content_type]

vars == <<households, members, invitations, appUsers, rls, movies, nextHid, nextInv,
          now, proc, ret, faults, published, accepted>>

store == <<households, members, invitations>>

----------------------------------------------------------------------------
(* Bounds *)

MaxHouseholds == 1
MaxInvitations == 2
MaxTime == 31
MaxFaults == 1

(* Program constant: expires_at DEFAULT NOW() + INTERVAL '30 days' *)
ExpiryDays == 30

(* the slots calls run in: the calls of Spec follow one another in slot     *)
(* main, those of OverlapSpec overlap in the two slots                     *)
Procs == {"main", "other"}
Users == {"u1", "u2"}
NoUser == "anon"
Sessions == Users \cup {NoUser}
Roles == {"admin", "member"}
HouseholdNames == {"X"}
HouseholdIds == 1..MaxHouseholds
InvitationIds == 1..MaxInvitations

----------------------------------------------------------------------------
(* Emails are sequences of characters; normalisation is                    *)
(* email.toLowerCase().trim()                                              *)

ToLowerChar(c) ==
    CASE c = "A" -> "a"
      [] c = "B" -> "b"
      [] c = "X" -> "x"
      [] OTHER -> c

ToLowerCase(s) == [i \in 1..Len(s) |-> ToLowerChar(s[i])]

RECURSIVE TrimLeft(_)
TrimLeft(s) == IF s # <<>> /\ Head(s) = " " THEN TrimLeft(Tail(s)) ELSE s

RECURSIVE TrimRight(_)
TrimRight(s) ==
    IF s # <<>> /\ s[Len(s)] = " " THEN TrimRight(SubSeq(s, 1, Len(s) - 1)) ELSE s

Trim(s) == TrimRight(TrimLeft(s))

NormalizeEmailCaseOnly(e) == ToLowerCase(e)

NormalizeEmail(e) == Trim(ToLowerCase(e))

EmailA == <<"a", "@", "x">>
EmailB == <<"b", "@", "x">>
EmailBRaw == <<" ", "B", "@", "X", " ">>

(* user.email of the identity provider's session *)
AuthEmail(u) == IF u = "u1" THEN EmailA ELSE EmailB

(* The emails a caller types into the invite form *)
EmailInputs == {EmailB, EmailBRaw}

----------------------------------------------------------------------------
(* Call records *)

(* A call: the operation, the session's user and the arguments, with the   *)
(* locals the code keeps between two awaits (the new household's id in h,  *)
(* the household's name in name, the removed user's email in email).  An   *)
(* email argument is kept as normalizedEmail, the only form the code uses. *)
Call(op, user, h, u, role, email, inv, name) ==
    [op |-> op, pc |-> "idle", user |-> user, h |-> h, u |-> u, role |-> role,
     email |-> email, inv |-> inv, name |-> name]

Idle == Call("none", NoUser, 0, NoUser, "member", <<>>, 0, "")

(* What a call returns: the operation and its result.  A thrown error and  *)
(* a {success: false} result both have ok = FALSE; thrown tells them       *)
(* apart.  id is the returned household's id, the id in the invitation     *)
(* link or the householdId of acceptInvitation's result, 0 when absent.    *)
Return(c, ok, thrown, msg, id) ==
    [op |-> c.op, ok |-> ok, thrown |-> thrown, msg |-> msg, id |-> id]

NoRet == Return(Idle, FALSE, FALSE, "", 0)

(* the call c of slot p returns *)
Finish(p, c, ok, thrown, msg, id) ==
    /\ proc' = [proc EXCEPT ![p] = Idle]
    /\ ret' = Return(c, ok, thrown, msg, id)

(* the call c of slot p goes on to its next await *)
Goto(p, c, pc) ==
    /\ proc' = [proc EXCEPT ![p] = [c EXCEPT !.pc = pc]]
    /\ ret' = NoRet

----------------------------------------------------------------------------
(* Tables *)

HouseholdRow(h) == CHOOSE r \in households : r.id = h
HouseholdExists(h) == \E r \in households : r.id = h
IsCreator(uid, h) == \E r \in households : r.id = h /\ r.created_by = uid

MemberRowsSet == BagToSet(members)
MemberRows(h, u) == {r \in MemberRowsSet : r.household_id = h /\ r.user_id = u}
IsMember(u, h) == MemberRows(h, u) # {}

(* number of household_members rows for (h, u), duplicates counted *)
RECURSIVE SumCopies(_)
SumCopies(S) ==
    IF S = {} THEN 0
    ELSE LET r == CHOOSE x \in S : TRUE
         IN  CopiesIn(r, members) + SumCopies(S \ {r})

MemberRowCount(h, u) == SumCopies(MemberRows(h, u))
AdminRows(h) == {r \in MemberRowsSet : r.household_id = h /\ r.role = "admin"}
AdminCount(h) == SumCopies(AdminRows(h))

HasProfile(u) == u \in Users /\ appUsers[u].present

(* app_users.email: createAppUser stores user.email, or the column is NULL *)
HasAppEmail(u) == HasProfile(u) /\ appUsers[u].hasEmail
AppEmail(u) == AuthEmail(u)

InvitationRows(h, email) ==
    {r \in invitations : r.household_id = h /\ r.email = email}
PendingRows(h, email) == {r \in InvitationRows(h, email) : r.status = "pending"}
SharesHousehold(u1, u2) ==
    \E h \in HouseholdIds : IsMember(u1, h) /\ IsMember(u2, h)

----------------------------------------------------------------------------
(* Row-level security policies; uid is auth.uid() of the request           *)

HouseholdsSelectPolicy(uid, r) ==
    \/ r.created_by = uid
    \/ rls.households = "creatorOrMember" /\ IsMember(uid, r.id)

HouseholdsInsertPolicy(uid, r) == r.created_by = uid

HouseholdsUpdatePolicyAnyUser(uid, r) == uid \in Users

(* USING (created_by = auth.uid()) WITH CHECK (created_by = auth.uid()) *)
HouseholdsUpdatePolicy(uid, r) == r.created_by = uid

(* No script of the repository creates a DELETE policy on households: with *)
(* row-level security enabled a DELETE then matches no row.                *)
HouseholdsDeletePolicy(uid, r) == FALSE

MembersSelectPolicy(uid, r) ==
    \/ IsCreator(uid, r.household_id)
    \/ rls.members = "creatorOrSelf" /\ r.user_id = uid
    \/ rls.members = "creatorOrMember" /\ IsMember(uid, r.household_id)

MembersInsertPolicy(uid, r) ==
    \/ IsCreator(uid, r.household_id)
    \/ r.user_id = uid

MembersDeletePolicyAnyMember(uid, r) ==
    \/ IsCreator(uid, r.household_id)
    \/ IsMember(uid, r.household_id)

MembersDeletePolicy(uid, r) ==
    \/ IsCreator(uid, r.household_id)
    \/ r.user_id = uid

(* app_users: the own profile, or one of a user of a shared household *)
AppUsersSelectPolicy(uid, u) == u = uid \/ SharesHousehold(uid, u)

InvitationsSelectPolicy(uid, r) == TRUE

InvitationsInsertPolicy(uid, r) == IsCreator(uid, r.household_id)

(* email IN (SELECT email FROM app_users WHERE id = auth.uid()) *)
InvitationsUpdatePolicy(uid, r) == HasAppEmail(uid) /\ r.email = AppEmail(uid)

InvitationsDeletePolicy(uid, r) == IsCreator(uid, r.household_id)

(* The deployments of the SELECT policies: the rollback script, the        *)
(* SECURITY DEFINER script of the setup instructions, and the              *)
(* is_household_member script                                              *)
RlsDeployments ==
    { [households |-> "creator", members |-> "creator"],
      [households |-> "creatorOrMember", members |-> "creatorOrSelf"],
      [households |-> "creatorOrMember", members |-> "creatorOrMember"] }

----------------------------------------------------------------------------
(* getUserHouseholds(), for the session of uid: the household_members rows *)
(* of uid joined to their households, each as far as the policies show     *)
(* them; a row whose household is not shown is dropped (filter(Boolean)).  *)
getUserHouseholds(uid) ==
    IF uid = NoUser THEN {}
    ELSE {r \in households :
            /\ HouseholdsSelectPolicy(uid, r)
            /\ \E m \in MemberRows(r.id, uid) : MembersSelectPolicy(uid, m)}

----------------------------------------------------------------------------
(* INSERT into household_members: the policy's WITH CHECK, then the        *)
(* UNIQUE(household_id, user_id) index, then the foreign keys              *)

MemberInsertErrorNoUniqueIndex(uid, r) ==
    IF ~MembersInsertPolicy(uid, r) THEN "42501"
    ELSE IF ~HouseholdExists(r.household_id) \/ ~HasProfile(r.user_id) THEN "23503"
    ELSE "ok"

MemberInsertError(uid, r) ==
    IF ~MembersInsertPolicy(uid, r) THEN "42501"
    ELSE IF MemberRows(r.household_id, r.user_id) # {} THEN "23505"
    ELSE IF ~HouseholdExists(r.household_id) \/ ~HasProfile(r.user_id) THEN "23503"
    ELSE "ok"

MemberRow(h, u, role) == [household_id |-> h, user_id |-> u, role |-> role]

InsertMemberRow(r) == members (+) SetToBag({r})

DeleteMemberRows(S) == [r \in (DOMAIN members) \ S |-> members[r]]

----------------------------------------------------------------------------
(* The environment of a request *)

(* whether the store fails the request of this step *)
FaultChoices == IF faults < MaxFaults THEN BOOLEAN ELSE {FALSE}

Request(fail) == faults' = IF fail THEN faults + 1 ELSE faults

(* Ids are UUIDs the store generates: a session can name a household only  *)
(* once createHousehold has returned it, an invitation once it was issued. *)
KnownHouseholds == published
IssuedInvitations == 1..(nextInv - 1)

----------------------------------------------------------------------------
(* createHousehold(name) *)

(* lines 52-71: the session check and the INSERT into households *)
CreateHouseholdInsertCall(p, user, name, fail) ==
    LET c   == Call("createHousehold", user, 0, NoUser, "member", <<>>, 0, name)
        row == [id |-> nextHid, name |-> name, created_by |-> user]
    IN  /\ proc[p].pc = "idle"
        /\ IF user = NoUser
           THEN /\ ~fail
                /\ Finish(p, c, FALSE, TRUE, "No authenticated user", 0)
                /\ UNCHANGED <<store, nextHid>>
           ELSE IF fail \/ ~HouseholdsInsertPolicy(user, row) \/ ~HasProfile(user)
           THEN /\ Finish(p, c, FALSE, TRUE, "householdError", 0)
                /\ UNCHANGED <<store, nextHid>>
           ELSE /\ nextHid <= MaxHouseholds
                /\ households' = households \cup {row}
                /\ nextHid' = nextHid + 1
                /\ Goto(p, [c EXCEPT !.h = row.id], "ch_member")
                /\ UNCHANGED <<members, invitations>>
        /\ Request(fail)
        /\ UNCHANGED <<appUsers, rls, movies, nextInv, now, published, accepted>>

CreateHouseholdInsert(p) ==
    \E user \in Sessions, name \in HouseholdNames, fail \in FaultChoices :
        CreateHouseholdInsertCall(p, user, name, fail)

CreateHouseholdMemberAsMember(p) ==
    /\ proc[p].pc = "ch_member"
    /\ \E fail \in FaultChoices :
        LET c   == proc[p]
            row == MemberRow(c.h, c.user, "member")
        IN  /\ IF ~fail /\ MemberInsertError(c.user, row) = "ok"
               THEN /\ members' = InsertMemberRow(row)
                    /\ published' = published \cup {c.h}
                    /\ Finish(p, c, TRUE, FALSE, "", c.h)
               ELSE /\ Goto(p, c, "ch_cleanup")
                    /\ UNCHANGED <<members, published>>
            /\ Request(fail)
    /\ UNCHANGED <<households, invitations, appUsers, rls, movies, nextHid, nextInv, now, accepted>>

(* lines 73-89: the INSERT of the creator's admin row; the household is    *)
(* returned when it succeeds                                               *)
CreateHouseholdMember(p) ==
    /\ proc[p].pc = "ch_member"
    /\ \E fail \in FaultChoices :
        LET c   == proc[p]
            row == MemberRow(c.h, c.user, "admin")
        IN  /\ IF ~fail /\ MemberInsertError(c.user, row) = "ok"
               THEN /\ members' = InsertMemberRow(row)
                    /\ published' = published \cup {c.h}
                    /\ Finish(p, c, TRUE, FALSE, "", c.h)
               ELSE /\ Goto(p, c, "ch_cleanup")
                    /\ UNCHANGED <<members, published>>
            /\ Request(fail)
    /\ UNCHANGED <<households, invitations, appUsers, rls, movies, nextHid, nextInv, now, accepted>>

(* lines 84-86: the compensating DELETE, its result ignored, then the throw *)
CreateHouseholdCleanup(p) ==
    /\ proc[p].pc = "ch_cleanup"
    /\ \E fail \in FaultChoices :
        LET c == proc[p]
        IN  /\ households' =
                  IF fail THEN households
                  ELSE {r \in households :
                          ~(r.id = c.h /\ HouseholdsDeletePolicy(c.user, r))}
            /\ Finish(p, c, FALSE, TRUE, "memberError", 0)
            /\ Request(fail)
    /\ UNCHANGED <<members, invitations, appUsers, rls, movies, nextHid, nextInv, now,
                   published, accepted>>

----------------------------------------------------------------------------
(* addHouseholdMember(householdId, userId, role) *)

AddMemberErrorMessageRaw(code) == code

AddMemberErrorMessage(code) ==
    IF code = "23505" THEN "User is already a member of this household" ELSE code

(* lines 308-325 *)
AddHouseholdMemberCall(p, user, h, u, role, fail) ==
    LET c    == Call("addHouseholdMember", user, h, u, role, <<>>, 0, "")
        row  == MemberRow(h, u, role)
        code == IF fail THEN "fault" ELSE MemberInsertError(user, row)
    IN  /\ proc[p].pc = "idle"
        /\ IF code = "ok"
           THEN /\ members' = InsertMemberRow(row)
                /\ Finish(p, c, TRUE, FALSE, "", 0)
           ELSE /\ Finish(p, c, FALSE, TRUE, AddMemberErrorMessage(code), 0)
                /\ UNCHANGED members
        /\ Request(fail)
        /\ UNCHANGED <<households, invitations, appUsers, rls, movies, nextHid, nextInv, now,
                       published, accepted>>

AddHouseholdMember(p) ==
    \E user \in Users, h \in KnownHouseholds, u \in Users, role \in Roles,
       fail \in FaultChoices :
        AddHouseholdMemberCall(p, user, h, u, role, fail)

----------------------------------------------------------------------------
(* updateHouseholdName(householdId, name) *)

(* the names a caller types into the rename form *)
RenameInputs == {"X", "Y"}

(* lines 330-340: one UPDATE; it changes the rows the policy lets the      *)
(* session update, and it is an error only when the request fails          *)
UpdateHouseholdNameCall(p, user, h, name, fail) ==
    LET c == Call("updateHouseholdName", user, h, NoUser, "member", <<>>, 0, name)
    IN  /\ proc[p].pc = "idle"
        /\ IF fail
           THEN /\ Finish(p, c, FALSE, TRUE, "fault", 0)
                /\ UNCHANGED households
           ELSE /\ households' =
                     {IF r.id = h /\ HouseholdsUpdatePolicy(user, r)
                      THEN [r EXCEPT !.name = name] ELSE r : r \in households}
                /\ Finish(p, c, TRUE, FALSE, "", 0)
        /\ Request(fail)
        /\ UNCHANGED <<members, invitations, appUsers, rls, movies, nextHid, nextInv, now,
                       published, accepted>>

UpdateHouseholdName(p) ==
    \E user \in Sessions, h \in KnownHouseholds, name \in RenameInputs,
       fail \in FaultChoices :
        UpdateHouseholdNameCall(p, user, h, name, fail)

----------------------------------------------------------------------------
(* removeHouseholdMember(householdId, userId) *)

RemoveMemberCleaningBeforeCheck(p, user, h, u, fail) ==
    LET c      == Call("removeHouseholdMember", user, h, u, "member", <<>>, 0, "")
        admins == IF fail THEN {}
                  ELSE {r \in AdminRows(h) : MembersSelectPolicy(user, r)}
    IN  /\ proc[p].pc = "idle"
        /\ IF user = NoUser
           THEN /\ ~fail
                /\ Finish(p, c, FALSE, TRUE, "No authenticated user", 0)
                /\ UNCHANGED invitations
           ELSE IF SumCopies(admins) = 1 /\ \E a \in admins : a.user_id = u
           THEN /\ Finish(p, c, FALSE, TRUE,
                          "Cannot remove the last admin from the household", 0)
                /\ invitations' =
                      invitations \ {r \in PendingRows(h, AuthEmail(u)) :
                                        InvitationsDeletePolicy(user, r)}
           ELSE /\ Goto(p, c, "rm_email")
                /\ UNCHANGED invitations
        /\ Request(fail)
        /\ UNCHANGED <<households, members, appUsers, rls, movies, nextHid, nextInv, now,
                       published, accepted>>

(* lines 348-367: the session check and the last-admin check on the admin  *)
(* rows the caller's SELECT returns (none when the request fails)          *)
RemoveMemberCheckAdminsCall(p, user, h, u, fail) ==
    LET c      == Call("removeHouseholdMember", user, h, u, "member", <<>>, 0, "")
        admins == IF fail THEN {}
                  ELSE {r \in AdminRows(h) : MembersSelectPolicy(user, r)}
    IN  /\ proc[p].pc = "idle"
        /\ IF user = NoUser
           THEN /\ ~fail
                /\ Finish(p, c, FALSE, TRUE, "No authenticated user", 0)
           ELSE IF SumCopies(admins) = 1 /\ \E a \in admins : a.user_id = u
           THEN Finish(p, c, FALSE, TRUE,
                       "Cannot remove the last admin from the household", 0)
           ELSE Goto(p, c, "rm_email")
        /\ Request(fail)
        /\ UNCHANGED <<store, appUsers, rls, movies, nextHid, nextInv, now, published, accepted>>

RemoveMemberCheckAdmins(p) ==
    \E user \in Sessions, h \in KnownHouseholds, u \in Users, fail \in FaultChoices :
        RemoveMemberCheckAdminsCall(p, user, h, u, fail)

(* lines 369-374: the removed user's email, <<>> when the row is not       *)
(* returned or its email is NULL                                           *)
RemoveMemberGetEmail(p) ==
    /\ proc[p].pc = "rm_email"
    /\ \E fail \in FaultChoices :
        LET c     == proc[p]
            email == IF ~fail /\ AppUsersSelectPolicy(c.user, c.u) /\ HasAppEmail(c.u)
                     THEN AppEmail(c.u) ELSE <<>>
        IN  /\ Goto(p, [c EXCEPT !.email = email], "rm_delete")
            /\ Request(fail)
    /\ UNCHANGED <<store, appUsers, rls, movies, nextHid, nextInv, now, published, accepted>>

RemoveMemberDeleteRechecking(p) ==
    /\ proc[p].pc = "rm_delete"
    /\ \E fail \in FaultChoices :
        LET c == proc[p]
        IN  /\ IF fail
               THEN /\ UNCHANGED members
                    /\ Finish(p, c, FALSE, TRUE, "fault", 0)
               ELSE /\ members' = DeleteMemberRows(
                          {r \in MemberRows(c.h, c.u) :
                              /\ MembersDeletePolicy(c.user, r)
                              /\ ~(AdminCount(c.h) = 1 /\ r.role = "admin")})
                    /\ IF c.email # <<>>
                       THEN Goto(p, c, "rm_cleanup")
                       ELSE Finish(p, c, TRUE, FALSE, "", 0)
            /\ Request(fail)
    /\ UNCHANGED <<households, invitations, appUsers, rls, movies, nextHid, nextInv, now,
                   published, accepted>>

(* lines 376-393: the DELETE, which the policy silently restricts *)
RemoveMemberDelete(p) ==
    /\ proc[p].pc = "rm_delete"
    /\ \E fail \in FaultChoices :
        LET c == proc[p]
        IN  /\ IF fail
               THEN /\ UNCHANGED members
                    /\ Finish(p, c, FALSE, TRUE, "fault", 0)
               ELSE /\ members' = DeleteMemberRows(
                          {r \in MemberRows(c.h, c.u) : MembersDeletePolicy(c.user, r)})
                    /\ IF c.email # <<>>
                       THEN Goto(p, c, "rm_cleanup")
                       ELSE Finish(p, c, TRUE, FALSE, "", 0)
            /\ Request(fail)
    /\ UNCHANGED <<households, invitations, appUsers, rls, movies, nextHid, nextInv, now,
                   published, accepted>>

(* lines 392-400: the pending invitations of the removed user's email *)
RemoveMemberCleanup(p) ==
    /\ proc[p].pc = "rm_cleanup"
    /\ \E fail \in FaultChoices :
        LET c == proc[p]
        IN  /\ invitations' =
                  IF fail THEN invitations
                  ELSE invitations \
                         {r \in PendingRows(c.h, NormalizeEmail(c.email)) :
                             InvitationsDeletePolicy(c.user, r)}
            /\ Finish(p, c, TRUE, FALSE, "", 0)
            /\ Request(fail)
    /\ UNCHANGED <<households, members, appUsers, rls, movies, nextHid, nextInv, now,
                   published, accepted>>

----------------------------------------------------------------------------
(* createHouseholdInvitation(householdId, email) *)

(* lines 157-201: the session check and the look-up of a pending           *)
(* invitation (none when the request fails).  c is a new call, or the call *)
(* addHouseholdMemberByEmail hands over (line 263).                        *)
CreateInvitationIgnoringPending(p, c, fail) ==
    /\ IF c.user = NoUser
       THEN /\ ~fail
            /\ Finish(p, c, FALSE, FALSE, "You must be logged in to send invitations.", 0)
       ELSE Goto(p, c, "ci_delete")
    /\ Request(fail)
    /\ UNCHANGED <<store, appUsers, rls, movies, nextHid, nextInv, now, published, accepted>>

CreateInvitationCheckPendingCall(p, c, fail) ==
    LET pending == IF fail THEN {} ELSE PendingRows(c.h, c.email)
    IN  /\ IF c.user = NoUser
           THEN /\ ~fail
                /\ Finish(p, c, FALSE, FALSE, "You must be logged in to send invitations.", 0)
           ELSE IF pending # {}
           THEN Finish(p, c, TRUE, FALSE, "Invitation already exists. Here's the link:",
                       (CHOOSE r \in pending : TRUE).id)
           ELSE Goto(p, c, "ci_delete")
        /\ Request(fail)
        /\ UNCHANGED <<store, appUsers, rls, movies, nextHid, nextInv, now, published, accepted>>

CreateInvitationEntry(p) ==
    IF proc[p].pc = "ci_pending" THEN {proc[p]}
    ELSE IF proc[p].pc = "idle"
    THEN {Call("createHouseholdInvitation", user, h, NoUser, "member",
               NormalizeEmail(email), 0, "") :
             user \in Sessions, h \in KnownHouseholds, email \in EmailInputs}
    ELSE {}

CreateInvitationCheckPending(p) ==
    \E c \in CreateInvitationEntry(p), fail \in FaultChoices :
        CreateInvitationCheckPendingCall(p, c, fail)

(* lines 203-214: the DELETE of every invitation of the pair, its error    *)
(* only logged                                                             *)
CreateInvitationDelete(p) ==
    /\ proc[p].pc = "ci_delete"
    /\ \E fail \in FaultChoices :
        LET c == proc[p]
        IN  /\ invitations' =
                  IF fail THEN invitations
                  ELSE invitations \
                         {r \in InvitationRows(c.h, c.email) :
                             InvitationsDeletePolicy(c.user, r)}
            /\ Goto(p, c, "ci_name")
            /\ Request(fail)
    /\ UNCHANGED <<households, members, appUsers, rls, movies, nextHid, nextInv, now,
                   published, accepted>>

(* lines 216-222 and 232: household?.name || 'Household' *)
CreateInvitationGetName(p) ==
    /\ proc[p].pc = "ci_name"
    /\ \E fail \in FaultChoices :
        LET c    == proc[p]
            rows == IF fail THEN {}
                    ELSE {r \in households :
                            r.id = c.h /\ HouseholdsSelectPolicy(c.user, r)}
            name == IF rows # {} THEN (CHOOSE r \in rows : TRUE).name ELSE "Household"
        IN  /\ Goto(p, [c EXCEPT !.name = name], "ci_insert")
            /\ Request(fail)
    /\ UNCHANGED <<store, appUsers, rls, movies, nextHid, nextInv, now, published, accepted>>

InvitationInsertErrorNoUniqueIndex(uid, r) ==
    IF ~InvitationsInsertPolicy(uid, r) THEN "42501"
    ELSE IF ~HouseholdExists(r.household_id) \/ ~HasProfile(r.invited_by) THEN "23503"
    ELSE "ok"

(* INSERT into household_invitations: the policy, UNIQUE(household_id,     *)
(* email), the foreign keys                                                *)
InvitationInsertError(uid, r) ==
    IF ~InvitationsInsertPolicy(uid, r) THEN "42501"
    ELSE IF InvitationRows(r.household_id, r.email) # {} THEN "23505"
    ELSE IF ~HouseholdExists(r.household_id) \/ ~HasProfile(r.invited_by) THEN "23503"
    ELSE "ok"

CreateInvitationInsertFixedExpiry(p) ==
    /\ proc[p].pc = "ci_insert"
    /\ \E fail \in FaultChoices :
        LET c    == proc[p]
            row  == [id |-> nextInv, household_id |-> c.h, email |-> c.email,
                     invited_by |-> c.user, status |-> "pending",
                     expires_at |-> ExpiryDays, household_name |-> c.name]
            code == IF fail THEN "fault" ELSE InvitationInsertError(c.user, row)
        IN  /\ IF code = "ok"
               THEN /\ nextInv <= MaxInvitations
                    /\ invitations' = invitations \cup {row}
                    /\ nextInv' = nextInv + 1
                    /\ Finish(p, c, TRUE, FALSE, "Invitation created! Share this link:",
                              row.id)
               ELSE /\ Finish(p, c, FALSE, FALSE, code, 0)
                    /\ UNCHANGED <<invitations, nextInv>>
            /\ Request(fail)
    /\ UNCHANGED <<households, members, appUsers, rls, movies, nextHid, now, published, accepted>>

(* lines 224-252 *)
CreateInvitationInsert(p) ==
    /\ proc[p].pc = "ci_insert"
    /\ \E fail \in FaultChoices :
        LET c    == proc[p]
            row  == [id |-> nextInv, household_id |-> c.h, email |-> c.email,
                     invited_by |-> c.user, status |-> "pending",
                     expires_at |-> now + ExpiryDays, household_name |-> c.name]
            code == IF fail THEN "fault" ELSE InvitationInsertError(c.user, row)
        IN  /\ IF code = "ok"
               THEN /\ nextInv <= MaxInvitations
                    /\ invitations' = invitations \cup {row}
                    /\ nextInv' = nextInv + 1
                    /\ Finish(p, c, TRUE, FALSE, "Invitation created! Share this link:",
                              row.id)
               ELSE /\ Finish(p, c, FALSE, FALSE, code, 0)
                    /\ UNCHANGED <<invitations, nextInv>>
            /\ Request(fail)
    /\ UNCHANGED <<households, members, appUsers, rls, movies, nextHid, now, published, accepted>>

----------------------------------------------------------------------------
(* acceptInvitation(invitationId) *)

UpdateStatusExpired(uid, S) ==
    {IF r \in S /\ InvitationsUpdatePolicy(uid, r)
     THEN [r EXCEPT !.status = "expired"] ELSE r : r \in invitations}

(* UPDATE household_invitations SET status = 'accepted' on the rows S the  *)
(* policy lets the caller update                                           *)
UpdateStatusAccepted(uid, S) ==
    {IF r \in S /\ InvitationsUpdatePolicy(uid, r)
     THEN [r EXCEPT !.status = "accepted"] ELSE r : r \in invitations}

IsExpiredNever(invitation) == FALSE

(* line 470: new Date(invitation.expires_at) < new Date() *)
IsExpired(invitation) == invitation.expires_at < now

UserEmailOfInvitee(u) == EmailB

(* line 479: (appUser.email || user.email || '') *)
UserEmail(u) == IF HasAppEmail(u) THEN AppEmail(u) ELSE AuthEmail(u)

(* lines 426-486: the session, the caller's profile, the invitation and    *)
(* the checks on it.  The profile is read with the invitation: app_users   *)
(* never changes.  A failed request is the read of the profile or the read *)
(* of the invitation (failProfile says which).                             *)
AcceptInvitationReadCall(p, user, inv, fail, failProfile) ==
    LET c     == Call("acceptInvitation", user, 0, NoUser, "member", <<>>, inv, "")
        rows  == IF fail THEN {}
                 ELSE {r \in invitations : r.id = inv /\ InvitationsSelectPolicy(user, r)}
        invitation == CHOOSE r \in rows : TRUE
    IN  /\ proc[p].pc = "idle"
        /\ IF user = NoUser
           THEN /\ ~fail
                /\ Finish(p, c, FALSE, FALSE,
                          "You must be logged in to accept an invitation.", 0)
           ELSE IF ~HasProfile(user) \/ (fail /\ failProfile)
           THEN /\ failProfile
                /\ Finish(p, c, FALSE, FALSE, "User profile not found.", 0)
           ELSE IF rows = {}
           THEN /\ ~failProfile
                /\ Finish(p, c, FALSE, FALSE, "Invitation not found or has expired.", 0)
           ELSE /\ ~failProfile
                /\ IF invitation.status # "pending"
                   THEN Finish(p, c, FALSE, FALSE,
                               IF invitation.status = "accepted"
                               THEN "This invitation has already been accepted."
                               ELSE "This invitation has expired.", 0)
                   ELSE IF IsExpired(invitation)
                   THEN Finish(p, c, FALSE, FALSE, "This invitation has expired.", 0)
                   ELSE IF NormalizeEmail(UserEmail(user)) # NormalizeEmail(invitation.email)
                   THEN Finish(p, c, FALSE, FALSE, "This invitation is for another email.", 0)
                   ELSE Goto(p, [c EXCEPT !.h = invitation.household_id], "ac_member")
        /\ Request(fail)
        /\ UNCHANGED <<store, appUsers, rls, movies, nextHid, nextInv, now, published, accepted>>

AcceptInvitationRead(p) ==
    \E user \in Sessions, inv \in IssuedInvitations, fail \in FaultChoices,
       failProfile \in BOOLEAN :
        AcceptInvitationReadCall(p, user, inv, fail, failProfile)

(* lines 488-496 *)
AcceptCheckMember(p) ==
    /\ proc[p].pc = "ac_member"
    /\ \E fail \in FaultChoices :
        LET c == proc[p]
            existingMember ==
                IF fail THEN {}
                ELSE {r \in MemberRows(c.h, c.user) : MembersSelectPolicy(c.user, r)}
        IN  /\ IF existingMember # {}
               THEN Goto(p, c, "ac_existing")
               ELSE Goto(p, c, "ac_insert")
            /\ Request(fail)
    /\ UNCHANGED <<store, appUsers, rls, movies, nextHid, nextInv, now, published, accepted>>

(* lines 496-508 and 514-524: the UPDATE of the status, its result         *)
(* ignored, and the success result                                         *)
AcceptMark(p, pc, msg) ==
    /\ proc[p].pc = pc
    /\ \E fail \in FaultChoices :
        LET c == proc[p]
        IN  /\ invitations' =
                  IF fail THEN invitations
                  ELSE UpdateStatusAccepted(c.user, {r \in invitations : r.id = c.inv})
            /\ accepted' = accepted \cup {<<c.inv, c.user>>}
            /\ Finish(p, c, TRUE, FALSE, msg, c.h)
            /\ Request(fail)
    /\ UNCHANGED <<households, members, appUsers, rls, movies, nextHid, nextInv, now, published>>

AcceptMarkExisting(p) ==
    AcceptMark(p, "ac_existing", "You are already a member of this household.")

AcceptMarkAccepted(p) ==
    AcceptMark(p, "ac_mark", "You've been added to the household!")

AcceptInsertMemberUncaught(p) ==
    /\ proc[p].pc = "ac_insert"
    /\ \E fail \in FaultChoices :
        LET c    == proc[p]
            row  == MemberRow(c.h, c.user, "member")
            code == IF fail THEN "fault" ELSE MemberInsertError(c.user, row)
        IN  /\ IF code = "ok"
               THEN /\ members' = InsertMemberRow(row)
                    /\ Goto(p, c, "ac_mark")
               ELSE /\ Finish(p, c, FALSE, TRUE, AddMemberErrorMessage(code), 0)
                    /\ UNCHANGED members
            /\ Request(fail)
    /\ UNCHANGED <<households, invitations, appUsers, rls, movies, nextHid, nextInv, now,
                   published, accepted>>

(* lines 510-512 and 525-530 *)
AcceptInsertMember(p) ==
    /\ proc[p].pc = "ac_insert"
    /\ \E fail \in FaultChoices :
        LET c    == proc[p]
            row  == MemberRow(c.h, c.user, "member")
            code == IF fail THEN "fault" ELSE MemberInsertError(c.user, row)
        IN  /\ IF code = "ok"
               THEN /\ members' = InsertMemberRow(row)
                    /\ Goto(p, c, "ac_mark")
               ELSE /\ Finish(p, c, FALSE, FALSE, AddMemberErrorMessage(code), 0)
                    /\ UNCHANGED members
            /\ Request(fail)
    /\ UNCHANGED <<households, invitations, appUsers, rls, movies, nextHid, nextInv, now,
                   published, accepted>>

----------------------------------------------------------------------------
(* addHouseholdMemberByEmail(householdId, email) *)

(* lines 120-151: the app_users rows of that email the caller may see.  A  *)
(* failed first query is retried with ilike, to the same result.           *)
findUserByEmail(uid, email) ==
    {u \in Users : /\ HasAppEmail(u)
                   /\ AppEmail(u) = NormalizeEmail(email)
                   /\ AppUsersSelectPolicy(uid, u)}

(* lines 258-264 *)
AddByEmailFindUser(p) ==
    /\ proc[p].pc = "idle"
    /\ \E user \in Sessions, h \in KnownHouseholds, email \in EmailInputs,
          fail \in FaultChoices :
        LET c     == Call("addHouseholdMemberByEmail", user, h, NoUser, "member",
                          NormalizeEmail(email), 0, "")
            found == findUserByEmail(user, email)
        IN  /\ IF found = {}
               THEN Goto(p, c, "ci_pending")
               ELSE Goto(p, [c EXCEPT !.u = CHOOSE u \in found : TRUE], "ae_member")
            /\ Request(fail)
    /\ UNCHANGED <<store, appUsers, rls, movies, nextHid, nextInv, now, published, accepted>>

(* lines 266-279 *)
AddByEmailCheckMember(p) ==
    /\ proc[p].pc = "ae_member"
    /\ \E fail \in FaultChoices :
        LET c == proc[p]
            existingMember ==
                IF fail THEN {}
                ELSE {r \in MemberRows(c.h, c.u) : MembersSelectPolicy(c.user, r)}
        IN  /\ IF existingMember # {}
               THEN Finish(p, c, FALSE, FALSE,
                           "User is already a member of this household.", 0)
               ELSE Goto(p, c, "ae_insert")
            /\ Request(fail)
    /\ UNCHANGED <<store, appUsers, rls, movies, nextHid, nextInv, now, published, accepted>>

(* lines 281-283 and 297-302 *)
AddByEmailInsertMember(p) ==
    /\ proc[p].pc = "ae_insert"
    /\ \E fail \in FaultChoices :
        LET c    == proc[p]
            row  == MemberRow(c.h, c.u, "member")
            code == IF fail THEN "fault" ELSE MemberInsertError(c.user, row)
        IN  /\ IF code = "ok"
               THEN /\ members' = InsertMemberRow(row)
                    /\ Goto(p, c, "ae_mark")
               ELSE /\ Finish(p, c, FALSE, FALSE, AddMemberErrorMessage(code), 0)
                    /\ UNCHANGED members
            /\ Request(fail)
    /\ UNCHANGED <<households, invitations, appUsers, rls, movies, nextHid, nextInv, now,
                   published, accepted>>

(* lines 285-296 *)
AddByEmailMarkAccepted(p) ==
    /\ proc[p].pc = "ae_mark"
    /\ \E fail \in FaultChoices :
        LET c == proc[p]
        IN  /\ invitations' =
                  IF fail THEN invitations
                  ELSE UpdateStatusAccepted(c.user, PendingRows(c.h, c.email))
            /\ Finish(p, c, TRUE, FALSE, "added to the household!", 0)
            /\ Request(fail)
    /\ UNCHANGED <<households, members, appUsers, rls, movies, nextHid, nextInv, now,
                   published, accepted>>

----------------------------------------------------------------------------
(* addMovie(householdId, title, personalNote, movieMetadata) and the       *)
(* add-movie form that calls it                                            *)

MaxMovies == 2

(* what the metadata service answers to a request *)
ApiResults == {"error", "nomatch", "match"}

(* the title the user typed or picked, and the one the service has for it *)
UserTitle == "t"
ApiTitle == "T"

(* movie metadata: null, or the record of the service *)
NoMetadata == [api_id |-> "null", title |-> ""]
ApiMetadata == [api_id |-> "tmdb1", title |-> ApiTitle]

(* lines 562-590 of movieApi.ts: null when nothing matches, and null when  *)
(* a request throws, which the function catches                            *)
searchMovie(api) == IF api = "match" THEN ApiMetadata ELSE NoMetadata

(* lines 317-348 of movieApi.ts *)
getMovieByTmdbId(api) == IF api = "match" THEN ApiMetadata ELSE NoMetadata

(* household_id IN (SELECT household_id FROM household_members WHERE       *)
(* user_id = auth.uid()) AND auth.uid() = added_by_user_id; the sub-select *)
(* runs under the caller's policies                                        *)
MoviesInsertPolicy(uid, r) ==
    /\ r.added_by_user_id = uid
    /\ \E m \in MemberRows(r.household_id, uid) : MembersSelectPolicy(uid, m)

(* a call of addMovie or of the form's handleSubmit: Call with the         *)
(* metadata the call holds                                                 *)
MovieCall(op, user, h, title, metadata) ==
    [op |-> op, pc |-> "idle", user |-> user, h |-> h, u |-> NoUser, role |-> "member",
     email |-> <<>>, inv |-> 0, name |-> title, metadata |-> metadata]

(* addMovie throws: to its caller, or into the catch of handleSubmit,      *)
(* which shows the message (none of them mentions 'metadata')              *)
MovieThrow(p, c, msg) == Finish(p, c, FALSE, c.op = "addMovie", msg, 0)

(* lines 29-44 of movies.ts: the session and the caller's profile *)
AddMovieReadCall(p, c, fail) ==
    /\ IF c.user = NoUser
       THEN /\ ~fail
            /\ MovieThrow(p, c, "No authenticated user")
       ELSE IF fail \/ ~HasProfile(c.user)
       THEN MovieThrow(p, c, "App user not found")
       ELSE IF c.metadata = NoMetadata
       THEN Goto(p, c, "am_lookup")
       ELSE Goto(p, c, "am_insert")
    /\ Request(fail)
    /\ UNCHANGED <<store, appUsers, rls, movies, nextHid, nextInv, now, published, accepted>>

(* addMovie called without metadata *)
AddMovieRead(p) ==
    /\ proc[p].pc = "idle"
    /\ \E user \in Sessions, h \in KnownHouseholds, fail \in FaultChoices :
         AddMovieReadCall(p, MovieCall("addMovie", user, h, UserTitle, NoMetadata), fail)

(* addMovie called by handleSubmit *)
AddMovieReadOfForm(p) ==
    /\ proc[p].pc = "am_profile"
    /\ \E fail \in FaultChoices : AddMovieReadCall(p, proc[p], fail)

(* lines 46-55 of movies.ts: finalMetadata = await searchMovie(title) *)
AddMovieLookupCall(p, api) ==
    LET c == proc[p]
    IN  /\ c.pc = "am_lookup"
        /\ Goto(p, [c EXCEPT !.metadata = searchMovie(api)], "am_insert")
        /\ UNCHANGED <<store, appUsers, rls, movies, nextHid, nextInv, now, faults,
                       published, accepted>>

AddMovieLookup(p) == \E api \in ApiResults : AddMovieLookupCall(p, api)

(* lines 57-83 of movies.ts: movieData and its INSERT *)
MovieData(c) ==
    [id |-> Cardinality(movies) + 1,
     household_id |-> c.h,
     added_by_user_id |-> c.user,
     title |-> IF c.metadata.title # "" THEN c.metadata.title ELSE c.name,
     status |-> "unwatched",
     api_id |-> c.metadata.api_id,
     content_type |-> "movie"]

AddMovieInsertCall(p, fail) ==
    LET c == proc[p]
    IN  /\ c.pc = "am_insert"
        /\ IF fail \/ ~MoviesInsertPolicy(c.user, MovieData(c)) \/ ~HouseholdExists(c.h)
           THEN /\ MovieThrow(p, c, "error")
                /\ UNCHANGED movies
           ELSE /\ Cardinality(movies) < MaxMovies
                /\ movies' = movies \cup {MovieData(c)}
                /\ Finish(p, c, TRUE, FALSE, "", 0)
        /\ Request(fail)
        /\ UNCHANGED <<store, appUsers, rls, nextHid, nextInv, now, published, accepted>>

AddMovieInsert(p) == \E fail \in FaultChoices : AddMovieInsertCall(p, fail)

(* lines 158-176 of the form: the details of the picked movie, then        *)
(* addMovie with them; without details the handler throws into its own     *)
(* catch, which shows the error (lines 180-189)                            *)
HandleSubmitCall(p, user, h, api) ==
    LET movieDetails == getMovieByTmdbId(api)
        c == MovieCall("handleSubmit", user, h,
                       IF movieDetails.title # "" THEN movieDetails.title ELSE UserTitle,
                       movieDetails)
    IN  /\ proc[p].pc = "idle"
        /\ IF movieDetails = NoMetadata
           THEN Finish(p, c, FALSE, FALSE, "Failed to fetch movie details", 0)
           ELSE Goto(p, c, "am_profile")
        /\ UNCHANGED <<store, appUsers, rls, movies, nextHid, nextInv, now, faults,
                       published, accepted>>

HandleSubmit(p) ==
    \E user \in Sessions, h \in KnownHouseholds, api \in ApiResults :
        HandleSubmitCall(p, user, h, api)

----------------------------------------------------------------------------
(* getRandomUnwatchedMovie(householdId, contentType) over                  *)
(* getHouseholdMovies, and updateMovieStatus(movieId, status)              *)

ContentTypes == {"movie", "tv"}
MovieStatuses == {"unwatched", "watching", "watched"}

(* household_id IN (SELECT household_id FROM household_members WHERE       *)
(* user_id = auth.uid()), for SELECT and for UPDATE; the sub-select runs   *)
(* under the caller's policies                                             *)
MoviesSelectPolicy(uid, r) ==
    \E m \in MemberRows(r.household_id, uid) : MembersSelectPolicy(uid, m)

MoviesUpdatePolicy(uid, r) == MoviesSelectPolicy(uid, r)

(* CHECK (status IN ('unwatched', 'watched')) *)
MovieStatusCheck(status) == status \in {"unwatched", "watched"}

(* lines 94-129 of movies.ts: the rows of the household with that status   *)
(* and content type that the caller may see; [] when the request fails     *)
getHouseholdMovies(uid, h, status, contentType, fail) ==
    IF fail THEN {}
    ELSE {m \in movies : /\ m.household_id = h
                         /\ m.status = status
                         /\ m.content_type = contentType
                         /\ MoviesSelectPolicy(uid, m)}

(* lines 134-144 of movies.ts: null (id 0), or the row at a random index *)
GetRandomUnwatchedMovieCall(p, user, h, contentType, fail) ==
    LET c == Call("getRandomUnwatchedMovie", user, h, NoUser, "member", <<>>, 0, contentType)
        found == getHouseholdMovies(user, h, "unwatched", contentType, fail)
    IN  /\ proc[p].pc = "idle"
        /\ IF found = {}
           THEN Finish(p, c, TRUE, FALSE, "null", 0)
           ELSE \E m \in found : Finish(p, c, TRUE, FALSE, "", m.id)
        /\ Request(fail)
        /\ UNCHANGED <<store, appUsers, rls, movies, nextHid, nextInv, now, published, accepted>>

GetRandomUnwatchedMovie(p) ==
    \E user \in Sessions, h \in KnownHouseholds, contentType \in ContentTypes,
       fail \in FaultChoices :
        GetRandomUnwatchedMovieCall(p, user, h, contentType, fail)

(* lines 149-160 of movies.ts *)
UpdateMovieStatus(p) ==
    /\ proc[p].pc = "idle"
    /\ \E user \in Sessions, id \in {m.id : m \in movies}, status \in MovieStatuses,
          fail \in FaultChoices :
        LET c == Call("updateMovieStatus", user, 0, NoUser, "member", <<>>, id, status)
            rows == {m \in movies : m.id = id /\ MoviesUpdatePolicy(user, m)}
        IN  /\ IF fail \/ (rows # {} /\ ~MovieStatusCheck(status))
               THEN /\ Finish(p, c, FALSE, TRUE, "error", 0)
                    /\ UNCHANGED movies
               ELSE /\ movies' = (movies \ rows) \cup {[m EXCEPT !.status = status] : m \in rows}
                    /\ Finish(p, c, TRUE, FALSE, "", 0)
            /\ Request(fail)
    /\ UNCHANGED <<store, appUsers, rls, nextHid, nextInv, now, published, accepted>>

----------------------------------------------------------------------------
(* The clock.  The code reads it only against the expires_at of a pending  *)
(* invitation (line 470), so it is advanced only while there is one, and   *)
(* only to the instants that matter to an invitation issued at 0: its      *)
(* expiry date and the days after it.                                      *)

Tick ==
    /\ now < MaxTime
    /\ \E r \in invitations : r.status = "pending"
    /\ now' = IF now < ExpiryDays THEN ExpiryDays ELSE now + 1
    /\ ret' = NoRet
    /\ UNCHANGED <<store, appUsers, rls, movies, nextHid, nextInv, proc, faults, published,
                   accepted>>

(* app_users rows: u1 has a profile with its email; u2 has no profile yet, *)
(* a profile whose email column is NULL, or a profile with its email.      *)
ProfileStates ==
    { [present |-> FALSE, hasEmail |-> FALSE],
      [present |-> TRUE, hasEmail |-> FALSE],
      [present |-> TRUE, hasEmail |-> TRUE] }

Init ==
    /\ households = {}
    /\ members = EmptyBag
    /\ invitations = {}
    /\ appUsers \in {f \in [Users -> ProfileStates] : f["u1"].hasEmail}
    /\ rls \in RlsDeployments
    /\ nextHid = 1
    /\ nextInv = 1
    /\ now = 0
    /\ proc = [p \in Procs |-> Idle]
    /\ ret = NoRet
    /\ faults = 0
    /\ published = {}
    /\ accepted = {}
    /\ movies = {}

(* one request of a call: its first, which starts the call, or its next *)
Step(p) ==
    \/ CreateHouseholdInsert(p)
    \/ CreateHouseholdMember(p)
    \/ CreateHouseholdCleanup(p)
    \/ AddHouseholdMember(p)
    \/ RemoveMemberCheckAdmins(p)
    \/ RemoveMemberGetEmail(p)
    \/ RemoveMemberDelete(p)
    \/ RemoveMemberCleanup(p)
    \/ CreateInvitationCheckPending(p)
    \/ CreateInvitationDelete(p)
    \/ CreateInvitationGetName(p)
    \/ CreateInvitationInsert(p)
    \/ AcceptInvitationRead(p)
    \/ AcceptCheckMember(p)
    \/ AcceptMarkExisting(p)
    \/ AcceptInsertMember(p)
    \/ AcceptMarkAccepted(p)
    \/ AddByEmailFindUser(p)
    \/ AddByEmailCheckMember(p)
    \/ AddByEmailInsertMember(p)
    \/ AddByEmailMarkAccepted(p)

(* The calls follow one another: a call is started when the one before it  *)
(* has returned.                                                           *)
Next == Step("main") \/ Tick

Spec == Init /\ [][Next]_vars

----------------------------------------------------------------------------
(* Overlapping calls: two sessions at once, each request of a call one     *)
(* step, on the state Spec reaches when u1 has created a household and has *)
(* invited b@x to it.  The calls are those that insert into                *)
(* household_members, with createHouseholdInvitation, which                *)
(* addHouseholdMemberByEmail hands over to.                                *)

OverlapInit ==
    /\ households = {[id |-> 1, name |-> "X", created_by |-> "u1"]}
    /\ members = SetToBag({MemberRow(1, "u1", "admin")})
    /\ invitations = {[id |-> 1, household_id |-> 1, email |-> EmailB,
                        invited_by |-> "u1", status |-> "pending",
                        expires_at |-> ExpiryDays, household_name |-> "X"]}
    /\ appUsers \in {f \in [Users -> ProfileStates] : f["u1"].hasEmail /\ f["u2"].present}
    /\ rls \in RlsDeployments
    /\ nextHid = 2
    /\ nextInv = 2
    /\ now = 0
    /\ proc = [p \in Procs |-> Idle]
    /\ ret = NoRet
    /\ faults = 0
    /\ published = {1}
    /\ accepted = {}
    /\ movies = {}

OverlapStep(p) ==
    \/ AddHouseholdMember(p)
    \/ CreateInvitationCheckPending(p)
    \/ CreateInvitationDelete(p)
    \/ CreateInvitationGetName(p)
    \/ CreateInvitationInsert(p)
    \/ AcceptInvitationRead(p)
    \/ AcceptCheckMember(p)
    \/ AcceptMarkExisting(p)
    \/ AcceptInsertMember(p)
    \/ AcceptMarkAccepted(p)
    \/ AddByEmailFindUser(p)
    \/ AddByEmailCheckMember(p)
    \/ AddByEmailInsertMember(p)
    \/ AddByEmailMarkAccepted(p)

OverlapNext == \E p \in Procs : OverlapStep(p)

OverlapSpec == OverlapInit /\ [][OverlapNext]_vars

----------------------------------------------------------------------------
(* The calls that write the households table, with addHouseholdMember,     *)
(* following one another.                                                  *)

RenameNext ==
    \/ CreateHouseholdInsert("main")
    \/ CreateHouseholdMember("main")
    \/ CreateHouseholdCleanup("main")
    \/ AddHouseholdMember("main")
    \/ UpdateHouseholdName("main")

RenameSpec == Init /\ [][RenameNext]_vars

----------------------------------------------------------------------------
(* Adding movies to the households that createHousehold and                *)
(* addHouseholdMember have set up, the calls following one another.        *)

MovieNext ==
    \/ CreateHouseholdInsert("main")
    \/ CreateHouseholdMember("main")
    \/ CreateHouseholdCleanup("main")
    \/ AddHouseholdMember("main")
    \/ AddMovieRead("main")
    \/ AddMovieReadOfForm("main")
    \/ AddMovieLookup("main")
    \/ AddMovieInsert("main")
    \/ HandleSubmit("main")

MovieSpec == Init /\ [][MovieNext]_vars

----------------------------------------------------------------------------
(* Overlapping calls of removeHouseholdMember, each request one step, on   *)
(* the state Spec reaches when u1 has created a household and has added u2 *)
(* to it as a second admin.                                                *)

RaceInit ==
    /\ households = {[id |-> 1, name |-> "X", created_by |-> "u1"]}
    /\ members = SetToBag({MemberRow(1, "u1", "admin"), MemberRow(1, "u2", "admin")})
    /\ invitations = {}
    /\ appUsers \in {f \in [Users -> ProfileStates] : f["u1"].hasEmail /\ f["u2"].present}
    /\ rls \in RlsDeployments
    /\ nextHid = 2
    /\ nextInv = 1
    /\ now = 0
    /\ proc = [p \in Procs |-> Idle]
    /\ ret = NoRet
    /\ faults = 0
    /\ published = {1}
    /\ accepted = {}
    /\ movies = {}

RaceStep(p) ==
    \/ RemoveMemberCheckAdmins(p)
    \/ RemoveMemberGetEmail(p)
    \/ RemoveMemberDelete(p)
    \/ RemoveMemberCleanup(p)

RaceNext == \E p \in Procs : RaceStep(p)

RaceSpec == RaceInit /\ [][RaceNext]_vars

----------------------------------------------------------------------------
(* createHouseholdInvitation called by the creator of household 1 from two *)
(* tabs, the awaits of the two calls interleaving; no invitation exists at *)
(* the start.                                                              *)

InviteRaceInit ==
    /\ households = {[id |-> 1, name |-> "X", created_by |-> "u1"]}
    /\ members = SetToBag({MemberRow(1, "u1", "admin")})
    /\ invitations = {}
    /\ appUsers \in {f \in [Users -> ProfileStates] : f["u1"].hasEmail /\ f["u2"].present}
    /\ rls \in RlsDeployments
    /\ nextHid = 2
    /\ nextInv = 1
    /\ now = 0
    /\ proc = [p \in Procs |-> Idle]
    /\ ret = NoRet
    /\ faults = 0
    /\ published = {1}
    /\ accepted = {}
    /\ movies = {}

CreateInvitationCheckPendingOfCreator(p) ==
    \E c \in {d \in CreateInvitationEntry(p) :
                \E r \in households : r.id = d.h /\ r.created_by = d.user},
       fail \in FaultChoices :
        CreateInvitationCheckPendingCall(p, c, fail)

InviteRaceStep(p) ==
    \/ CreateInvitationCheckPendingOfCreator(p)
    \/ CreateInvitationDelete(p)
    \/ CreateInvitationGetName(p)
    \/ CreateInvitationInsert(p)

InviteRaceNext == \E p \in Procs : InviteRaceStep(p)

InviteRaceSpec == InviteRaceInit /\ [][InviteRaceNext]_vars

----------------------------------------------------------------------------
(* removeHouseholdMember and acceptInvitation following one another in a   *)
(* household whose creator u1 has invited b@x and added u2 as a member;    *)
(* createHouseholdInvitation is not called again.                          *)

RejoinInit ==
    /\ households = {[id |-> 1, name |-> "X", created_by |-> "u1"]}
    /\ members = SetToBag({MemberRow(1, "u1", "admin"), MemberRow(1, "u2", "member")})
    /\ invitations = {[id |-> 1, household_id |-> 1, email |-> EmailB,
                        invited_by |-> "u1", status |-> "pending",
                        expires_at |-> ExpiryDays, household_name |-> "X"]}
    /\ appUsers \in {f \in [Users -> ProfileStates] : f["u1"].hasEmail /\ f["u2"].present}
    /\ rls \in RlsDeployments
    /\ nextHid = 2
    /\ nextInv = 2
    /\ now = 0
    /\ proc = [p \in Procs |-> Idle]
    /\ ret = NoRet
    /\ faults = 0
    /\ published = {1}
    /\ accepted = {}
    /\ movies = {}

RejoinStep(p) ==
    \/ RemoveMemberCheckAdmins(p)
    \/ RemoveMemberGetEmail(p)
    \/ RemoveMemberDelete(p)
    \/ RemoveMemberCleanup(p)
    \/ AcceptInvitationRead(p)
    \/ AcceptCheckMember(p)
    \/ AcceptMarkExisting(p)
    \/ AcceptInsertMember(p)
    \/ AcceptMarkAccepted(p)

RejoinNext == RejoinStep("main") \/ Tick

RejoinSpec == RejoinInit /\ [][RejoinNext]_vars

----------------------------------------------------------------------------
(* createHousehold and createHouseholdInvitation called with any string,   *)
(* the empty one included, the calls following one another.                *)

NameInputs == {"X", ""}
EmailInputsOrEmpty == EmailInputs \cup {<<>>, <<" ">>}

CreateHouseholdInsertAnyName(p) ==
    \E user \in Sessions, name \in NameInputs, fail \in FaultChoices :
        CreateHouseholdInsertCall(p, user, name, fail)

CreateInvitationCheckPendingAnyEmail(p) ==
    /\ proc[p].pc = "idle"
    /\ \E user \in Sessions, h \in KnownHouseholds, email \in EmailInputsOrEmpty,
          fail \in FaultChoices :
         CreateInvitationCheckPendingCall(
             p, Call("createHouseholdInvitation", user, h, NoUser, "member",
                     NormalizeEmail(email), 0, ""), fail)

ValidationNext ==
    \/ CreateHouseholdInsertAnyName("main")
    \/ CreateHouseholdMember("main")
    \/ CreateHouseholdCleanup("main")
    \/ CreateInvitationCheckPendingAnyEmail("main")
    \/ CreateInvitationDelete("main")
    \/ CreateInvitationGetName("main")
    \/ CreateInvitationInsert("main")

ValidationSpec == Init /\ [][ValidationNext]_vars

----------------------------------------------------------------------------
(* Picking a movie: two households, u2 a member of u1's household and the  *)
(* creator of its own, with movies and TV shows their creators have added. *)

MovieOf(id, h, user, contentType) ==
    [id |-> id, household_id |-> h, added_by_user_id |-> user, title |-> UserTitle,
     status |-> "unwatched", api_id |-> "null", content_type |-> contentType]

PickerInit ==
    /\ households = {[id |-> 1, name |-> "X", created_by |-> "u1"],
                     [id |-> 2, name |-> "X", created_by |-> "u2"]}
    /\ members = SetToBag({MemberRow(1, "u1", "admin"), MemberRow(1, "u2", "member"),
                           MemberRow(2, "u2", "admin")})
    /\ invitations = {}
    /\ appUsers = [u \in Users |-> [present |-> TRUE, hasEmail |-> TRUE]]
    /\ rls \in RlsDeployments
    /\ movies = {MovieOf(1, 1, "u1", "movie"), MovieOf(2, 1, "u1", "movie"),
                 MovieOf(3, 1, "u1", "tv"), MovieOf(4, 2, "u2", "movie")}
    /\ nextHid = 3
    /\ nextInv = 1
    /\ now = 0
    /\ proc = [p \in Procs |-> Idle]
    /\ ret = NoRet
    /\ faults = 0
    /\ published = {1, 2}
    /\ accepted = {}

PickerNext ==
    \/ UpdateMovieStatus("main")
    \/ GetRandomUnwatchedMovie("main")

PickerSpec == PickerInit /\ [][PickerNext]_vars

----------------------------------------------------------------------------
(* Properties *)

AllIdle == \A p \in Procs : proc[p] = Idle

(* a step in which a call of op is started *)
Starts(op) ==
    /\ proc["main"].pc = "idle"
    /\ ret'.op = op \/ proc'["main"].op = op

(* C1: whenever no call is in flight, and no request has failed, every     *)
(* household has at least one household_members row of role admin.         *)
C1_EveryHouseholdHasAdmin ==
    (AllIdle /\ faults = 0) => \A r \in households : AdminCount(r.id) >= 1

(* C2: in every reachable state there is at most one household_members row *)
(* for each (household_id, user_id) pair.                                  *)
C2_OneRowPerPair ==
    \A h \in HouseholdIds, u \in Users : MemberRowCount(h, u) <= 1

(* two overlapping calls have inserted for the same pair, and the second   *)
(* insert was refused                                                      *)
C2_Witness ==
    /\ ret.msg = "User is already a member of this household"
    /\ \E p \in Procs : proc[p].pc \in {"ac_mark", "ae_mark"}
    /\ \A h \in HouseholdIds, u \in Users : MemberRowCount(h, u) = 1

(* the call createHouseholdInvitation(h, email) of the session of user *)
InvitationCall(user, h, email) ==
    Call("createHouseholdInvitation", user, h, NoUser, "member", NormalizeEmail(email), 0, "")

(* C3: while a pending invitation r exists for (householdId, email), a     *)
(* call of createHouseholdInvitation for that pair by a logged-in user,    *)
(* its look-up answered, returns success with the id of r and leaves r the *)
(* only invitation row of the pair; and every successful call returns the  *)
(* id of a pending row of its pair, the only row of that pair (so a second *)
(* call right after it returns the same id).                               *)
C3_SamePendingInvitation ==
    [][/\ Starts("createHouseholdInvitation") =>
          \A user \in Users, email \in EmailInputs, r \in invitations :
            (/\ r.status = "pending"
             /\ r.email = NormalizeEmail(email)
             /\ CreateInvitationCheckPendingCall(
                    "main", InvitationCall(user, r.household_id, email), FALSE))
            => /\ ret'.ok
               /\ ret'.id = r.id
               /\ {x \in invitations' : x.household_id = r.household_id /\ x.email = r.email}
                      = {r}
       /\ (proc["main"].pc \in {"idle", "ci_pending", "ci_insert"}
           /\ ret'.op = "createHouseholdInvitation" /\ ret'.ok)
            => \E r \in invitations' :
                  /\ r.id = ret'.id
                  /\ r.status = "pending"
                  /\ proc["main"].pc = "ci_insert"
                        => r.household_id = proc["main"].h /\ r.email = proc["main"].email
                  /\ {x \in invitations' : x.household_id = r.household_id /\ x.email = r.email}
                        = {r}]_vars

(* a second call found the pending invitation and returned its link *)
C3_Witness ==
    /\ ret.op = "createHouseholdInvitation"
    /\ ret.msg = "Invitation already exists. Here's the link:"
    /\ \E r \in invitations : r.id = ret.id /\ r.status = "pending"

(* C4: when acceptInvitation has returned success for an invitation to an  *)
(* account, the account is a member of the invitation's household and its  *)
(* email matches, a second acceptInvitation of the same invitation by the  *)
(* same account does not return a failure (no request having failed).      *)
C4_SecondAcceptSucceeds ==
    [][Starts("acceptInvitation") =>
        \A user \in Users, r \in invitations :
          (/\ <<r.id, user>> \in accepted
           /\ IsMember(user, r.household_id)
           /\ NormalizeEmail(AuthEmail(user)) = NormalizeEmail(r.email)
           /\ faults = 0
           /\ AcceptInvitationReadCall("main", user, r.id, FALSE, FALSE))
          => (ret' = NoRet \/ ret'.ok)]_vars

(* C5: when createHousehold(name) of account A returns the household,      *)
(* getUserHouseholds of A includes it with that name, and its only         *)
(* household_members row is (A, admin).                                    *)
C5_CreateThenList ==
    [][\A A \in Users, name \in HouseholdNames, h \in HouseholdIds :
          (/\ proc["main"].op = "createHousehold"
           /\ proc["main"].user = A
           /\ proc["main"].name = name
           /\ ret'.op = "createHousehold" /\ ret'.ok /\ ret'.id = h)
          => /\ \E r \in getUserHouseholds(A)' : r.id = h /\ r.name = name
             /\ \A u \in Users :
                   MemberRowCount(h, u)' = IF u = A THEN 1 ELSE 0
             /\ MemberRows(h, A)' = {MemberRow(h, A, "admin")}]_vars

(* createHousehold has just returned the household *)
C5_Witness ==
    /\ ret.op = "createHousehold" /\ ret.ok
    /\ \E r \in households : r.id = ret.id /\ r \in getUserHouseholds(r.created_by)

(* C6: when createHousehold throws the error of its household_members     *)
(* INSERT, no households row of the new id exists.                         *)
C6_NoHouseholdAfterFailedCreate ==
    [][(proc["main"].pc = "ch_cleanup" /\ ret'.op = "createHousehold" /\ ret'.thrown)
        => \A r \in households' : r.id # proc["main"].h]_vars

(* C7: removeHouseholdMember(H, U) by an account the DELETE policy         *)
(* authorizes (the creator of H, or U), its look-up answered, throws when  *)
(* U is the only admin of H; and when H has two or more admins, U one of   *)
(* them, it returns normally with U's row deleted and an admin left.       *)
C7_LastAdminGuard ==
    [][/\ Starts("removeHouseholdMember") =>
          \A user \in Users, h \in HouseholdIds, u \in Users :
            (/\ AdminCount(h) = 1
             /\ \E a \in AdminRows(h) : a.user_id = u
             /\ \A r \in MemberRows(h, u) : MembersDeletePolicy(user, r)
             /\ RemoveMemberCheckAdminsCall("main", user, h, u, FALSE))
            => ret'.thrown
       /\ Starts("removeHouseholdMember") =>
          \A user \in Users, h \in HouseholdIds, u \in Users :
            (/\ AdminCount(h) >= 2
             /\ \E a \in AdminRows(h) : a.user_id = u
             /\ \A r \in MemberRows(h, u) : MembersDeletePolicy(user, r)
             /\ RemoveMemberCheckAdminsCall("main", user, h, u, FALSE))
            => ~ret'.thrown
       /\ (proc["main"].op = "removeHouseholdMember" /\ ret'.op = "removeHouseholdMember"
           /\ ret'.ok /\ faults' = 0
           /\ \A r \in MemberRows(proc["main"].h, proc["main"].u) :
                  MembersDeletePolicy(proc["main"].user, r))
            => /\ ~IsMember(proc["main"].u, proc["main"].h)'
               /\ HouseholdExists(proc["main"].h) => AdminCount(proc["main"].h)' >= 1]_vars

(* C8: acceptInvitation on a pending invitation whose expires_at is        *)
(* earlier than the clock returns a failure and changes no table; to an    *)
(* account with a profile, its reads answered, the failure is the expiry   *)
(* message.                                                                *)
C8_ExpiredInvitationRejected ==
    [][Starts("acceptInvitation") =>
        \A r \in {x \in invitations : x.status = "pending" /\ x.expires_at < now},
           user \in Sessions, fail \in BOOLEAN, failProfile \in BOOLEAN :
          AcceptInvitationReadCall("main", user, r.id, fail, failProfile)
          => /\ ret'.op = "acceptInvitation" /\ ~ret'.ok
             /\ store' = store
             /\ (HasProfile(user) /\ ~fail) => ret'.msg = "This invitation has expired."]_vars

(* acceptInvitation has just refused an expired invitation that is pending *)
C8_Witness ==
    /\ ret.op = "acceptInvitation" /\ ~ret.ok
    /\ ret.msg = "This invitation has expired."
    /\ \E r \in invitations : r.status = "pending" /\ r.expires_at < now
    /\ members # EmptyBag

(* C9: when acceptInvitation returns success to an account that was not a  *)
(* member (no request having failed), a household_members row (household   *)
(* of the invitation, account, member) exists and the invitation's status  *)
(* is accepted.                                                            *)
C9_AcceptCreatesMembership ==
    [][(proc["main"].pc = "ac_mark" /\ ret'.op = "acceptInvitation" /\ ret'.ok
        /\ faults' = 0)
        => /\ MemberRow(proc["main"].h, proc["main"].user, "member") \in MemberRowsSet'
           /\ \A r \in invitations' : r.id = proc["main"].inv => r.status = "accepted"]_vars

(* C10: acceptInvitation by an account whose email, lowercased and         *)
(* trimmed, differs from the invitation's returns a failure and changes no *)
(* table; and acceptInvitation inserts a household_members row only for    *)
(* an account whose email matches the invitation's.                        *)
C10_EmailMismatchRejected ==
    [][/\ Starts("acceptInvitation") =>
          \A user \in Users :
          \A r \in {x \in invitations :
                      NormalizeEmail(AuthEmail(user)) # NormalizeEmail(x.email)},
             fail \in BOOLEAN, failProfile \in BOOLEAN :
            AcceptInvitationReadCall("main", user, r.id, fail, failProfile)
            => /\ ret'.op = "acceptInvitation" /\ ~ret'.ok
               /\ store' = store
       /\ (proc["main"].op = "acceptInvitation" /\ members' # members)
            => \E r \in invitations :
                  /\ r.id = proc["main"].inv
                  /\ NormalizeEmail(AuthEmail(proc["main"].user)) = NormalizeEmail(r.email)]_vars

(* acceptInvitation has just refused an account of another email, with the *)
(* invitation pending and in time                                          *)
C10_Witness ==
    /\ ret.op = "acceptInvitation" /\ ~ret.ok
    /\ ret.msg = "This invitation is for another email."
    /\ \E r \in invitations : r.status = "pending" /\ r.expires_at >= now

(* C11: addHouseholdMember(H, U, role) while a household_members row for   *)
(* (H, U) exists throws and leaves household_members as it was; when the   *)
(* caller passes the INSERT policy (the creator of H, or U) and the        *)
(* request is answered, the error is 'User is already a member of this     *)
(* household'.                                                             *)
C11_DuplicateMemberRejected ==
    [][Starts("addHouseholdMember") =>
        \A h \in HouseholdIds :
        \A u \in {x \in Users : IsMember(x, h)}, user \in Users, role \in Roles,
           fail \in {faults' # faults} :
          AddHouseholdMemberCall("main", user, h, u, role, fail)
          => /\ ret'.thrown
             /\ members' = members
             /\ (~fail /\ MembersInsertPolicy(user, MemberRow(h, u, role)))
                  => ret'.msg = "User is already a member of this household"]_vars

(* addHouseholdMember has just refused a second row for a pair, the first  *)
(* row being of the other role                                             *)
C11_Witness ==
    /\ ret.op = "addHouseholdMember" /\ ret.thrown
    /\ ret.msg = "User is already a member of this household"
    /\ \E h \in HouseholdIds : MemberRows(h, "u2") = {MemberRow(h, "u2", "admin")}

C13_OnlyCreatorInvites ==
    [][/\ Starts("createHouseholdInvitation") =>
          \A user \in Users, h \in HouseholdIds, email \in EmailInputs,
             fail \in {faults' # faults} :
            (/\ ~IsCreator(user, h)
             /\ CreateInvitationCheckPendingCall("main", InvitationCall(user, h, email), fail))
            => ~ret'.ok /\ invitations' = invitations
       /\ (/\ proc["main"].op = "createHouseholdInvitation"
           /\ ~IsCreator(proc["main"].user, proc["main"].h))
            => ~ret'.ok /\ invitations' \subseteq invitations]_vars

----------------------------------------------------------------------------
C15_NonCreatorRenameFails ==
    [][Starts("updateHouseholdName") =>
         \A user \in Sessions, h \in HouseholdIds, name \in RenameInputs,
            fail \in {faults' # faults} :
           (~IsCreator(user, h) /\ UpdateHouseholdNameCall("main", user, h, name, fail))
           => ~ret'.ok]_vars

(* C16: whenever no call is in flight, getUserHouseholds for the session   *)
(* of an account returns exactly the households the account has a          *)
(* household_members row in, and the empty list without a session.         *)
C16_ListsExactlyMemberships ==
    AllIdle =>
      /\ getUserHouseholds(NoUser) = {}
      /\ \A a \in Users :
            getUserHouseholds(a) = {r \in households : IsMember(a, r.id)}

(* C17: a call of acceptInvitation never throws, and one that fails        *)
(* returns a message and has written neither household_members nor         *)
(* household_invitations: the returning step writes nothing, a step of the *)
(* call that writes either table is the member insert that goes on to the  *)
(* final update or a step that returns success, and a call past its        *)
(* member insert returns success.                                          *)
C17_AcceptFailuresAreResults ==
    [][(proc' # proc /\ (ret'.op = "acceptInvitation" \/ proc'["main"].op = "acceptInvitation"))
        => /\ ret'.op = "acceptInvitation"
                => /\ ~ret'.thrown
                   /\ ~ret'.ok => /\ ret'.msg # ""
                                  /\ members' = members
                                  /\ invitations' = invitations
           /\ (members' # members \/ invitations' # invitations)
                => proc'["main"].pc = "ac_mark" \/ ret'.ok
           /\ proc["main"].pc = "ac_mark" => ret'.ok]_vars

(* the member insert of an accepting member was refused, the invitation is *)
(* still pending                                                           *)
C17_Witness ==
    /\ ret.op = "acceptInvitation"
    /\ ~ret.ok
    /\ ret.msg = "User is already a member of this household"
    /\ \E r \in invitations : r.status = "pending" /\ IsMember("u2", r.household_id)

(* C18: a step that changes the household_invitations table (a row         *)
(* inserted, deleted or its status set) is a step of                       *)
(* createHouseholdInvitation, also when addHouseholdMemberByEmail has      *)
(* handed over to it, or of acceptInvitation.                              *)
C18_InvitationsOwnedByTwoCalls ==
    [][invitations' # invitations
        => \/ proc["main"].op \in {"createHouseholdInvitation", "acceptInvitation"}
           \/ /\ proc["main"].op = "addHouseholdMemberByEmail"
              /\ proc["main"].pc \in {"ci_pending", "ci_delete", "ci_name", "ci_insert"}]_vars

(* C19: adding a movie goes on when the metadata lookup fails.  A lookup   *)
(* that matches nothing, or whose request fails, gives null; the           *)
(* operation whose lookup gave null goes on to its insert, be it addMovie  *)
(* or the form's handleSubmit; and the insert of a call without metadata   *)
(* that the store accepts adds a row with the user's title and status      *)
(* unwatched.                                                              *)
C19_AddProceedsWithoutMetadata ==
    [][/\ searchMovie("nomatch") = NoMetadata
       /\ \A api \in ApiResults \ {"match"} :
            /\ AddMovieLookupCall("main", api)
                 => proc'["main"].pc = "am_insert"
            /\ \A user \in Users, h \in HouseholdIds :
                 HandleSubmitCall("main", user, h, api)
                 => proc'["main"].pc \in {"am_profile", "am_insert"}
       /\ (AddMovieInsertCall("main", FALSE) /\ proc["main"].metadata = NoMetadata
             /\ MoviesInsertPolicy(proc["main"].user, MovieData(proc["main"])))
            => \E r \in movies' \ movies :
                  /\ r.household_id = proc["main"].h
                  /\ r.title = UserTitle
                  /\ r.status = "unwatched"]_vars

(* C20: two overlapping calls of removeHouseholdMember, each for one of    *)
(* the two admins of a household, both pass the last-admin check and both  *)
(* delete.  The check is made once, at the start of the call: the DELETE   *)
(* of a call that has passed it removes every row of the target that the   *)
(* policy lets the caller delete, also when the target is by then the only *)
(* admin left.  C20_Witness is the state this leads to.                    *)
C20_DeleteAfterStaleCheck ==
    [][\A p \in Procs :
         (proc[p].pc = "rm_delete" /\ proc'[p] # proc[p] /\ faults' = faults)
         => \A r \in MemberRows(proc[p].h, proc[p].u) :
              MembersDeletePolicy(proc[p].user, r) => r \notin DOMAIN members']_vars

(* both calls have returned, no request has failed, every admin row was    *)
(* visible to both checks, and the household has no admin                  *)
C20_Witness ==
    /\ AllIdle
    /\ ret.op = "removeHouseholdMember"
    /\ ret.ok
    /\ faults = 0
    /\ rls.members = "creatorOrMember"
    /\ HouseholdExists(1)
    /\ AdminCount(1) = 0

(* C21: a call of removeHouseholdMember that is refused because its target *)
(* is the only admin is refused in its first step, and that step writes    *)
(* neither household_members nor household_invitations.                    *)
C21_LastAdminRejectionWritesNothing ==
    [][(/\ ret'.op = "removeHouseholdMember"
        /\ ret'.msg = "Cannot remove the last admin from the household")
        => /\ proc["main"].pc = "idle"
           /\ members' = members
           /\ invitations' = invitations]_vars

(* the removal of the only admin, whose email has a pending invitation,    *)
(* has been refused                                                        *)
C21_Witness ==
    /\ ret.op = "removeHouseholdMember"
    /\ ret.msg = "Cannot remove the last admin from the household"
    /\ \E r \in invitations :
          /\ r.status = "pending"
          /\ r.email = EmailB
          /\ AdminRows(r.household_id) = {MemberRow(r.household_id, "u2", "admin")}

(* lines 392-400, for the call c: the table after the DELETE of the        *)
(* pending invitations of c's household and email that c's session may     *)
(* delete                                                                  *)
InvitationsAfterCleanup(c) ==
    invitations \ {r \in PendingRows(c.h, NormalizeEmail(c.email)) :
                     InvitationsDeletePolicy(c.user, r)}

(* C22: a call of removeHouseholdMember(h, u) that has deleted u's row,    *)
(* for a u whose profile has an email, goes on to the cleanup when no      *)
(* request has failed, and the cleanup leaves no pending invitation of h   *)
(* for u's normalised email and every other invitation as it was.          *)
C22_RemovalClearsPendingInvitations ==
    [][LET c == proc["main"]
       IN  /\ (c.pc = "rm_cleanup" /\ proc' # proc /\ faults' = faults)
                => invitations' = InvitationsAfterCleanup(c)
           /\ (/\ c.pc = "rm_delete"
               /\ members' # members
               /\ faults' = 0
               /\ HasAppEmail(c.u))
                => /\ proc'["main"].pc = "rm_cleanup"
                   /\ InvitationsAfterCleanup(proc'["main"])
                        = invitations \ PendingRows(c.h, NormalizeEmail(AppEmail(c.u)))]_vars

(* C23: household_invitations never holds two rows of one (household_id,   *)
(* email); and when no request fails, a call of createHouseholdInvitation  *)
(* by the household's creator that finds no pending invitation deletes     *)
(* the rows of the pair, and them only, and then inserts one pending row   *)
(* under an id no row has had, which it returns.                           *)
C23_OneInvitationPerPair ==
    [][LET c == proc["main"]
       IN  /\ \A r1 \in invitations', r2 \in invitations' :
                (r1.household_id = r2.household_id /\ r1.email = r2.email) => r1 = r2
           /\ (c.pc = "ci_delete" /\ proc' # proc /\ faults' = 0 /\ IsCreator(c.user, c.h))
                => invitations' = invitations \ InvitationRows(c.h, c.email)
           /\ (c.pc = "ci_insert" /\ proc' # proc /\ faults' = 0 /\ IsCreator(c.user, c.h))
                => /\ ret'.ok
                   /\ ret'.id \notin IssuedInvitations
                   /\ \E r \in invitations' :
                         /\ r.id = ret'.id
                         /\ r.status = "pending"
                         /\ invitations' = invitations \cup {r}
                         /\ {x \in invitations' : x.household_id = c.h /\ x.email = c.email}
                              = {r}]_vars

(* the creator has replaced the accepted invitation 1 by the pending       *)
(* invitation 2                                                            *)
C23_Witness ==
    /\ ret.op = "createHouseholdInvitation"
    /\ ret.ok
    /\ ret.id = 2
    /\ faults = 0
    /\ <<1, "u2">> \in accepted
    /\ \E r \in invitations : invitations = {r} /\ r.id = 2 /\ r.status = "pending"

(* C24: the stored status of an invitation id is pending or accepted; a    *)
(* step leaves it as it is or moves it from pending to accepted; and a row *)
(* that a step inserts has an id no row has had, so that an accepted       *)
(* invitation is never pending again.                                      *)
C24_StatusOnlyPendingToAccepted ==
    [][/\ \A r2 \in invitations' : r2.status \in {"pending", "accepted"}
       /\ \A r \in invitations, r2 \in invitations' :
            r2.id = r.id
            => \/ r2.status = r.status
               \/ r.status = "pending" /\ r2.status = "accepted"
       /\ \A r2 \in invitations' :
            (\A r \in invitations : r.id # r2.id) => r2.id \notin IssuedInvitations]_vars

(* an invitation has been accepted and its stored status is accepted *)
C24_Witness ==
    /\ ret.op = "acceptInvitation"
    /\ ret.ok
    /\ \E r \in invitations : r.status = "accepted" /\ <<r.id, "u2">> \in accepted

(* C25: every stored invitation email is lowercased and trimmed, and while *)
(* a pending invitation r exists, a call of createHouseholdInvitation for  *)
(* r's household by a logged-in user with an email that is r's email up to *)
(* letter case and surrounding whitespace, its look-up answered, returns   *)
(* the id of r and inserts nothing.                                        *)
C25_EmailNormalised ==
    [][/\ \A r \in invitations' \ invitations : r.email = Trim(ToLowerCase(r.email))
       /\ Starts("createHouseholdInvitation") =>
            \A r \in {x \in invitations : x.status = "pending"} :
            \A email \in {e \in EmailInputs : Trim(ToLowerCase(e)) = r.email},
               user \in Users :
              CreateInvitationCheckPendingCall(
                  "main", InvitationCall(user, r.household_id, email), FALSE)
              => /\ ret'.ok
                 /\ ret'.id = r.id
                 /\ invitations' = invitations]_vars

(* the pending invitation is stored under the normalised form of the email *)
(* as typed, and a later call has returned its id                          *)
C25_Witness ==
    /\ ret.op = "createHouseholdInvitation"
    /\ ret.ok
    /\ ret.msg = "Invitation already exists. Here's the link:"
    /\ \E r \in invitations :
          /\ r.id = ret.id
          /\ r.email = NormalizeEmail(EmailBRaw)
          /\ r.email # EmailBRaw

C27_EmptyInputRejected ==
    [][/\ Starts("createHousehold") =>
            \A user \in Sessions, fail \in {faults' # faults} :
              CreateHouseholdInsertCall("main", user, "", fail)
              => ~ret'.ok /\ ret'.op = "createHousehold" /\ UNCHANGED store
       /\ Starts("createHouseholdInvitation") =>
            \A user \in Sessions, h \in HouseholdIds, fail \in {faults' # faults} :
              CreateInvitationCheckPendingCall(
                  "main", Call("createHouseholdInvitation", user, h, NoUser, "member",
                               <<>>, 0, ""), fail)
              => ~ret'.ok /\ ret'.op = "createHouseholdInvitation" /\ UNCHANGED store]_vars

(* C28: getRandomUnwatchedMovie(h, contentType), called by a member of h   *)
(* and its request answered, returns null exactly when h has no movie of   *)
(* status unwatched and that content type, and otherwise one of those      *)
(* movies.                                                                 *)
C28_PicksUnwatchedOfHousehold ==
    [][Starts("getRandomUnwatchedMovie") =>
         \A h \in {r.id : r \in households}, contentType \in ContentTypes :
         \A user \in {u \in Users : IsMember(u, h)} :
           GetRandomUnwatchedMovieCall("main", user, h, contentType, FALSE)
           => LET unwatched == {m \in movies : /\ m.household_id = h
                                               /\ m.status = "unwatched"
                                               /\ m.content_type = contentType}
              IN  /\ ret'.id = 0 <=> unwatched = {}
                  /\ ret'.id # 0 => ret'.id \in {m.id : m \in unwatched}]_vars

(* C29: when two createHouseholdInvitation calls of the creator for the    *)
(* same household and email overlap, none of them finding a pending        *)
(* invitation, the row a call has inserted and returned the link of is     *)
(* still there once both have completed: with every request answered, no   *)
(* step of a call removes a pending invitation.  Under InviteRaceSpec      *)
(* every row of the table is one a successful call has handed out.         *)
C29_HandedOutInvitationSurvives ==
    [][faults' = 0 =>
         \A r \in invitations : r.status = "pending" => r \in invitations']_vars

(* C30: a user whom removeHouseholdMember has removed from household 1 is  *)
(* not made a member of it again by acceptInvitation as long as            *)
(* createHouseholdInvitation is not called again.  Under RejoinSpec both   *)
(* users start as members, so a user who is no member has been removed,    *)
(* and no invitation is created: with every request answered, no step      *)
(* makes a non-member whose profile holds an email a member.               *)
C30_RemovedMemberCannotRejoin ==
    [][faults' = 0 =>
         \A u \in {v \in Users : HasAppEmail(v)} :
            ~IsMember(u, 1) => ~IsMember(u, 1)']_vars


====
